---------------------------- MODULE Spec2Model ----------------------------
(***************************************************************************)
(* A model of Sensorlytics.py: the smoothing filter (get_mean), the fringe *)
(* extractor (get_fringe), the batch processors (varre_dados,              *)
(* cria_franjas), the resonance locator (calcular_wl_res_list), the        *)
(* empirical distribution estimator (find_pdf) and the JSON save / load    *)
(* helpers (save_list_to_json, load_json_file, dict_to_vector).            *)
(*                                                                         *)
(* The module's functions are stateless except for calcular_wl_res_list,   *)
(* which rebinds the process-wide sys.stdout, and the JSON helpers, which  *)
(* write and read a file.  A pure function is an operator; one action      *)
(* applies it to an argument drawn from a bounded set and records the      *)
(* outcome (a returned value or the exception that left the function).     *)
(***************************************************************************)
EXTENDS Integers, Sequences, FiniteSets, TLC

VARIABLES
    called,        \* the pure function that was called, "none" before any call
    arg,           \* the argument it was called with
    ret,           \* its outcome: [ok |-> TRUE, val |-> v] or [ok |-> FALSE, exc, raised_in]
    numpy_ragged,  \* what the installed numpy does with a ragged np.array(...)
    sys_stdout,    \* the process-wide sys.stdout binding
    thread,        \* per caller of calcular_wl_res_list: its frame
    overlapped,    \* history: two calls of calcular_wl_res_list were in progress at once
    file,          \* the content of the JSON file, "absent" before any save
    saved          \* history: the data handed to save_list_to_json

vars == <<called, arg, ret, numpy_ragged, sys_stdout, thread, overlapped, file, saved>>

---------------------------------------------------------------------------
(* Bounds of the model.                                                    *)

MaxLen == 40            \* longest level sequence given to get_mean / get_fringe
MaxGroups == 2          \* most sample groups in an experiment
MaxPerGroup == 2        \* most spectra in a sample group
MaxSpectra == 3         \* most spectra in one call of calcular_wl_res_list
MaxConcSpectra == 1     \* most spectra per call when two calls run at once
MaxData == 6            \* longest sample given to find_pdf
MaxValue == 3           \* find_pdf samples take their values in 1..MaxValue

---------------------------------------------------------------------------
(* Outcomes.                                                               *)

Return(v) == [ok |-> TRUE, val |-> v]
Raise(e, where) == [ok |-> FALSE, exc |-> e, raised_in |-> where]
None == "None"

(* A level column: its source spectrum and its length.  The numbers in it  *)
(* are not modelled; the values derived from it are terms over it.         *)
Level(src, n) == [op |-> "level", src |-> src, len |-> n]

---------------------------------------------------------------------------
(* get_mean                                                                *)

RECURSIVE Pow2Floor(_)
(* The largest power of two that is <= x, for x >= 1.                      *)
Pow2Floor(x) == IF x < 2 THEN 1 ELSE 2 * Pow2Floor(x \div 2)

(* int(np.floor(n / 1.1)) in IEEE double arithmetic.  The double 1.1 is    *)
(* (11 * 2^52 + 4) / (10 * 2^52), a little more than 11/10, so the exact   *)
(* quotient is a little less than 10n/11: by (8/11) * 2^-53 of it.  When   *)
(* 11 does not divide n the floor is that of 10n/11.  When n = 11k the     *)
(* quotient rounds to the double below 10k, and the floor is 10k - 1,      *)
(* exactly when that deficit exceeds half a unit in the last place of 10k, *)
(* that is when 80k > 11 * 2^e with 2^e <= 10k < 2^(e+1) (n = 33: 29).     *)
FloorDiv1p1(n) ==
    IF n > 0 /\ n % 11 = 0 /\ 80 * (n \div 11) > 11 * Pow2Floor(10 * (n \div 11))
    THEN (10 * n) \div 11 - 1
    ELSE (10 * n) \div 11

(* The window without its final + 1: even for every n.                     *)
WindNoPlusOne(n) == LET wind == FloorDiv1p1(n) IN wind + (wind % 2)
(* Lines 94-96: wind = len(level)/1.1; wind = int(np.floor(wind));         *)
(* wind = wind + wind%2 + 1.                                               *)
Wind(n) == LET wind == FloorDiv1p1(n) IN wind + (wind % 2) + 1

PolyOrder == 2
FringeWindow == 11

(* scipy.signal.savgol_filter(x, window_length, polyorder), mode="interp": *)
(* savgol_coeffs rejects polyorder >= window_length, then the filter       *)
(* rejects window_length > x.size; otherwise the result has x's length.    *)
(* Both errors are ValueErrors raised inside the filter routine.           *)
savgol_filter(x, window_length, polyorder) ==
    IF polyorder >= window_length
    THEN Raise("ValueError", "savgol_filter")
    ELSE IF window_length > x.len
    THEN Raise("ValueError", "savgol_filter")
    ELSE Return([op |-> "savgol_filter", x |-> x, window_length |-> window_length,
                 polyorder |-> polyorder, len |-> x.len])

get_mean(level) == savgol_filter(level, Wind(level.len), PolyOrder)

---------------------------------------------------------------------------
(* get_fringe                                                              *)

Minus(a, b) == [op |-> "sub", x |-> a, y |-> b, len |-> a.len]

(* get_fringe with a second window of 13 in place of 11.                   *)
get_fringe_window13(level) ==
    LET mean == get_mean(level) IN
    IF ~mean.ok THEN mean
    ELSE savgol_filter(Minus(level, mean.val), 13, PolyOrder)

(* Lines 113-115.  An exception of get_mean leaves get_fringe unchanged.   *)
get_fringe(level) ==
    LET mean == get_mean(level) IN
    IF ~mean.ok THEN mean
    ELSE savgol_filter(Minus(level, mean.val), FringeWindow, PolyOrder)

---------------------------------------------------------------------------
(* numpy arrays.  A 1-D float vector is a term with a len; an array of     *)
(* vectors is [shape, vecs, dtype], vecs being its items along axis 0.     *)

NumpyBuilds == {"raise", "object"}

(* np.array(list of 1-D vectors).  An empty list gives shape (0,); vectors *)
(* of one length n stack to shape (k, n); a ragged list is a ValueError    *)
(* from numpy 1.24 on and a 1-D object array of k vectors before.          *)
np_array(rows, ragged) ==
    IF rows = <<>>
    THEN Return([type |-> "ndarray", shape |-> <<0>>, vecs |-> <<>>, dtype |-> "float64"])
    ELSE IF \A i \in 1..Len(rows) : rows[i].len = rows[1].len
    THEN Return([type |-> "ndarray", shape |-> <<Len(rows), rows[1].len>>, vecs |-> rows,
                 dtype |-> "float64"])
    ELSE IF ragged = "raise"
    THEN Raise("ValueError", "np.array")
    ELSE Return([type |-> "ndarray", shape |-> <<Len(rows)>>, vecs |-> rows, dtype |-> "object"])

(* len(a): the size of axis 0.                                             *)
np_len(a) == a.shape[1]

(* list(a), as list.extend(a) does it: the items along axis 0.             *)
np_iter(a) == IF a.shape[1] = 0 THEN <<>> ELSE a.vecs

DataFrame(src, n) ==
    [Wavelength |-> [op |-> "wavelength", src |-> src, len |-> n], Level |-> Level(src, n)]

---------------------------------------------------------------------------
(* varre_dados                                                             *)

RECURSIVE varre_dados_loop(_, _, _)
(* Lines 157-161: the loop from item i on, Franjas_media being the list    *)
(* built so far.  An exception of get_fringe leaves the function.          *)
varre_dados_loop(dados_amostra, i, Franjas_media) ==
    IF i > Len(dados_amostra) THEN Return(Franjas_media)
    ELSE LET level == dados_amostra[i].Level
             x_m == get_fringe(level)
         IN IF ~x_m.ok THEN x_m
            ELSE varre_dados_loop(dados_amostra, i + 1, Append(Franjas_media, x_m.val))

(* Lines 156-163.                                                          *)
varre_dados(dados_amostra, ragged) ==
    LET Franjas_media == varre_dados_loop(dados_amostra, 1, <<>>) IN
    IF ~Franjas_media.ok THEN Franjas_media
    ELSE np_array(Franjas_media.val, ragged)

---------------------------------------------------------------------------
(* cria_franjas                                                            *)

(* A group's fringes put before, not after, those gathered so far.         *)
ExtendReversed(franjas, franjas_spec) == np_iter(franjas_spec) \o franjas
(* Line 316: franjas.extend(franjas_spec).                                 *)
Extend(franjas, franjas_spec) == franjas \o np_iter(franjas_spec)

RECURSIVE cria_franjas_loop(_, _, _, _, _)
(* Lines 312-316: the loop from group g on.  np.array of an array (line    *)
(* 313) is a copy of it.                                                   *)
cria_franjas_loop(specs_experimento, g, franjas, len_franjas, ragged) ==
    IF g > Len(specs_experimento) THEN Return(<<franjas, len_franjas>>)
    ELSE LET r == varre_dados(specs_experimento[g], ragged) IN
         IF ~r.ok THEN r
         ELSE LET franjas_spec == r.val
                  len_spec == np_len(franjas_spec)
              IN cria_franjas_loop(specs_experimento, g + 1,
                                   Extend(franjas, franjas_spec),
                                   Append(len_franjas, len_spec), ragged)

(* Lines 310-317: returns the pair (np.array(franjas), len_franjas).       *)
cria_franjas(specs_experimento, ragged) ==
    LET r == cria_franjas_loop(specs_experimento, 1, <<>>, <<>>, ragged) IN
    IF ~r.ok THEN r
    ELSE LET a == np_array(r.val[1], ragged) IN
         IF ~a.ok THEN a ELSE Return(<<a.val, r.val[2]>>)

---------------------------------------------------------------------------
(* find_pdf                                                                *)

RECURSIVE Insert(_, _)
Insert(x, s) ==
    IF s = <<>> THEN <<x>>
    ELSE IF x <= Head(s) THEN <<x>> \o s
    ELSE <<Head(s)>> \o Insert(x, Tail(s))

RECURSIVE Sort(_)
Sort(s) == IF s = <<>> THEN <<>> ELSE Insert(Head(s), Sort(Tail(s)))

RECURSIVE Dedup(_)
(* A sorted sequence without its repeats.                                  *)
Dedup(s) ==
    IF Len(s) <= 1 THEN s
    ELSE IF s[1] = s[2] THEN Dedup(Tail(s))
    ELSE <<Head(s)>> \o Dedup(Tail(s))

(* np.unique(data, return_counts=True): the sorted distinct values and how *)
(* often each occurs.                                                      *)
np_unique(data) ==
    LET unique_values == Dedup(Sort(data))
        counts == [i \in 1..Len(unique_values) |->
                      Cardinality({j \in 1..Len(data) : data[j] = unique_values[i]})]
    IN <<unique_values, counts>>

RECURSIVE np_sum(_)
np_sum(s) == IF s = <<>> THEN 0 ELSE Head(s) + np_sum(Tail(s))

(* The quotient c / t of two integers as a float: kept as the fraction.    *)
Frac(c, t) == [num |-> c, den |-> t]

(* find_pdf dividing by the number of distinct values, not of samples.     *)
find_pdf_over_unique(data) ==
    LET u == np_unique(data)
    IN Return(<<u[1], [i \in 1..Len(u[2]) |-> Frac(u[2][i], Len(u[1]))]>>)

(* Lines 377-379.  counts / np.sum(counts) divides elementwise: on an      *)
(* empty counts array no division happens and the result is empty.         *)
find_pdf(data) ==
    LET u == np_unique(data)
        unique_values == u[1]
        counts == u[2]
        pdf == [i \in 1..Len(counts) |-> Frac(counts[i], np_sum(counts))]
    IN Return(<<unique_values, pdf>>)

---------------------------------------------------------------------------
(* Python values handed to json: floats, lists, and the one-key dict.      *)

PyFloat(x) == [type |-> "float", value |-> x]
PyList(items) == [type |-> "list", items |-> items]
PyDict(k, v) == [type |-> "dict", key |-> k, value |-> v]

(* Item j of a float vector, as a Python float.                            *)
Item(v, j) == PyFloat([op |-> "item", of |-> v, j |-> j])

(* A float64 batch of shape (k, n) as the nested list of its floats, the   *)
(* list form that save_list_to_json documents for its data parameter.      *)
AsList(a) ==
    PyList([i \in 1..Len(np_iter(a)) |->
               PyList([j \in 1..a.vecs[i].len |-> Item(a.vecs[i], j)])])

(* JSON text, as the chunks json.dump writes.  A float is written by its   *)
(* repr, which float() reads back to the same double, so a number chunk    *)
(* carries the float itself.                                               *)
NoNum == [op |-> "none"]
Punct(text) == [tok |-> "punct", text |-> text, num |-> NoNum]
Str(text) == [tok |-> "str", text |-> text, num |-> NoNum]
Num(x) == [tok |-> "num", text |-> "", num |-> x]

RECURSIVE JsonEncode(_)
RECURSIVE JsonEncodeItems(_, _, _)
(* The chunks of a list's items from item i on, after the chunks acc.      *)
JsonEncodeItems(items, i, acc) ==
    IF i > Len(items) THEN [ok |-> TRUE, chunks |-> Append(acc, Punct("]"))]
    ELSE LET e == JsonEncode(items[i])
             sep == IF i = 1 THEN <<>> ELSE <<Punct(",")>>
         IN IF ~e.ok THEN [ok |-> FALSE, chunks |-> acc \o sep \o e.chunks]
            ELSE JsonEncodeItems(items, i + 1, acc \o sep \o e.chunks)

(* json's iterencode: the chunks written for o, and whether o could be     *)
(* encoded.  An object of a type json does not know (an ndarray) is a      *)
(* TypeError, raised after the chunks before it were written.              *)
JsonEncode(o) ==
    IF o.type = "float" THEN [ok |-> TRUE, chunks |-> <<Num(o.value)>>]
    ELSE IF o.type = "list"
    THEN JsonEncodeItems(o.items, 1, <<Punct("[")>>)
    ELSE IF o.type = "dict"
    THEN LET e == JsonEncode(o.value)
             head == <<Punct("{"), Str(o.key), Punct(":")>>
         IN IF ~e.ok THEN [ok |-> FALSE, chunks |-> head \o e.chunks]
            ELSE [ok |-> TRUE, chunks |-> head \o e.chunks \o <<Punct("}")>>]
    ELSE [ok |-> FALSE, chunks |-> <<>>]

ParseFail == [ok |-> FALSE, val |-> PyList(<<>>), rest |-> <<>>]
IsPunct(t, text) == t # <<>> /\ Head(t).tok = "punct" /\ Head(t).text = text

RECURSIVE JsonParse(_)
RECURSIVE JsonParseItems(_, _)
(* The items of a list after its "[", acc being those read so far.         *)
JsonParseItems(t, acc) ==
    LET v == JsonParse(t) IN
    IF ~v.ok THEN ParseFail
    ELSE IF IsPunct(v.rest, ",") THEN JsonParseItems(Tail(v.rest), Append(acc, v.val))
    ELSE IF IsPunct(v.rest, "]")
    THEN [ok |-> TRUE, val |-> PyList(Append(acc, v.val)), rest |-> Tail(v.rest)]
    ELSE ParseFail

(* json's decoder on the chunks t: the value read and the chunks left.     *)
JsonParse(t) ==
    IF t = <<>> THEN ParseFail
    ELSE IF Head(t).tok = "num"
    THEN [ok |-> TRUE, val |-> PyFloat(Head(t).num), rest |-> Tail(t)]
    ELSE IF IsPunct(t, "[")
    THEN IF IsPunct(Tail(t), "]")
         THEN [ok |-> TRUE, val |-> PyList(<<>>), rest |-> Tail(Tail(t))]
         ELSE JsonParseItems(Tail(t), <<>>)
    ELSE IF IsPunct(t, "{") /\ Len(t) >= 3 /\ t[2].tok = "str" /\ IsPunct(Tail(Tail(t)), ":")
    THEN LET v == JsonParse(Tail(Tail(Tail(t)))) IN
         IF v.ok /\ IsPunct(v.rest, "}")
         THEN [ok |-> TRUE, val |-> PyDict(t[2].text, v.val), rest |-> Tail(v.rest)]
         ELSE ParseFail
    ELSE ParseFail

---------------------------------------------------------------------------
(* save_list_to_json, load_json_file, dict_to_vector                       *)

Absent == [exists |-> FALSE, text |-> <<>>]
Written(text) == [exists |-> TRUE, text |-> text]

(* Lines 182-189.  Neither a list nor an ndarray has to_dict, so the data  *)
(* is wrapped as {"data": data}.  open(filename, "w") creates the file and *)
(* json.dump writes chunk by chunk: the result is the outcome and the file *)
(* left behind, which holds the chunks written before a TypeError.         *)
save_list_to_json(data) ==
    LET data_dict == PyDict("data", data)
        e == JsonEncode(data_dict)
    IN [out |-> IF e.ok THEN Return(None) ELSE Raise("TypeError", "json.dump"),
        file |-> Written(e.chunks)]

(* Lines 205-207.                                                          *)
load_json_file(f) ==
    IF ~f.exists THEN Raise("FileNotFoundError", "open")
    ELSE LET v == JsonParse(f.text) IN
         IF v.ok /\ v.rest = <<>> THEN Return(v.val)
         ELSE Raise("JSONDecodeError", "json.load")

RECURSIVE PyShape(_)
(* The shape np.array gives a nested list of floats of one shape.          *)
PyShape(o) ==
    IF o.type = "float" THEN <<>>
    ELSE IF o.items = <<>> THEN <<0>>
    ELSE <<Len(o.items)>> \o PyShape(o.items[1])

RECURSIVE PyFlat(_)
RECURSIVE PyFlatItems(_, _)
PyFlatItems(items, i) ==
    IF i > Len(items) THEN <<>> ELSE PyFlat(items[i]) \o PyFlatItems(items, i + 1)
(* The floats of a nested list, in row-major order.                        *)
PyFlat(o) == IF o.type = "float" THEN <<o>> ELSE PyFlatItems(o.items, 1)

RECURSIVE PyRegular(_)
(* Whether a nested list has one shape throughout.                         *)
PyRegular(o) ==
    o.type = "float" \/
    /\ \A i \in 1..Len(o.items) : PyRegular(o.items[i])
    /\ \A i \in 1..Len(o.items) : PyShape(o.items[i]) = PyShape(o.items[1])

(* np.squeeze: the axes of size 1 removed.                                 *)
np_squeeze(a) == [a EXCEPT !.shape = SelectSeq(a.shape, LAMBDA d : d # 1)]

(* Lines 223-225: np.squeeze(np.array(list(dictionary.values()))).         *)
dict_to_vector(dictionary, ragged) ==
    LET values == PyList(<<dictionary.value>>) IN
    IF PyRegular(values)
    THEN Return(np_squeeze([type |-> "ndarray", shape |-> PyShape(values),
                            flat |-> PyFlat(values), dtype |-> "float64"]))
    ELSE IF ragged = "raise" THEN Raise("ValueError", "np.array")
    ELSE Return(np_squeeze([type |-> "ndarray", shape |-> <<1>>,
                            flat |-> <<dictionary.value>>, dtype |-> "object"]))

---------------------------------------------------------------------------
(* calcular_wl_res_list                                                    *)

Threads == {1, 2}

(* The stream sys.stdout is bound to as the program starts, and the stream *)
(* that a call's open(os.devnull, "w") creates.                            *)
OriginalStdout == [stream |-> "stdout", opened_by |-> 0]
DevNull(t) == [stream |-> "devnull", opened_by |-> t]

(* A spectrum is told apart by what the valley finder makes of it.         *)
SpectrumKinds == {"raises", "no_best_index", "no_resonant_wl", "valley0", "valley1"}

BestIndexKey == [name |-> "best_index", idx |-> 0]
ResonantWlKey(i) == [name |-> "resonant_wl_", idx |-> i]

(* process_spectra.funcs.get_approximate_valley(spec.T, {}, prominence=0.5)*)
(* on a spectrum of each kind: it raises, or returns an info dict, which   *)
(* may lack best_index or the resonant_wl_<best_index> entry.              *)
get_approximate_valley(df) ==
    IF df = "raises" THEN Raise("ValueError", "get_approximate_valley")
    ELSE IF df = "no_best_index"
    THEN Return([k \in {ResonantWlKey(0)} |-> 1500])
    ELSE IF df = "no_resonant_wl"
    THEN Return([k \in {BestIndexKey, ResonantWlKey(0)} |->
                    IF k = BestIndexKey THEN 1 ELSE 1505])
    ELSE IF df = "valley0"
    THEN Return([k \in {BestIndexKey, ResonantWlKey(0), ResonantWlKey(1)} |->
                    IF k = BestIndexKey THEN 0
                    ELSE IF k = ResonantWlKey(0) THEN 1510 ELSE 1520])
    ELSE Return([k \in {BestIndexKey, ResonantWlKey(0), ResonantWlKey(1)} |->
                    IF k = BestIndexKey THEN 1
                    ELSE IF k = ResonantWlKey(0) THEN 1530 ELSE 1540])

(* info[key], a KeyError when the key is absent.                           *)
GetItem(info, key) ==
    IF key \in DOMAIN info THEN Return(info[key]) ELSE Raise("KeyError", "calcular_wl_res_list")

(* The loop body reading resonant_wl_0 whatever best_index is.             *)
loop_body_first_entry(df, wl_res_list) ==
    LET r == get_approximate_valley(df) IN
    IF ~r.ok THEN r
    ELSE LET i == GetItem(r.val, BestIndexKey) IN
         IF ~i.ok THEN i
         ELSE LET wl_res == GetItem(r.val, ResonantWlKey(0)) IN
              IF ~wl_res.ok THEN wl_res
              ELSE Return(Append(wl_res_list, wl_res.val))

(* Lines 345-349, one pass of the loop: the list after it, or the          *)
(* exception that leaves the function.                                     *)
loop_body(df, wl_res_list) ==
    LET r == get_approximate_valley(df) IN
    IF ~r.ok THEN r
    ELSE LET i == GetItem(r.val, BestIndexKey) IN
         IF ~i.ok THEN i
         ELSE LET wl_res == GetItem(r.val, ResonantWlKey(i.val)) IN
              IF ~wl_res.ok THEN wl_res
              ELSE Return(Append(wl_res_list, wl_res.val))

(* Line 350 left out: sys.stdout stays as it is.                           *)
stdout_left_as_is(frame, current) == current
(* Line 350: what sys.stdout is bound to on the way out.                   *)
stdout_restored(frame, current) == frame.stdout_temp

(* What a call handed back to its caller: nothing, or the returned list.   *)
NoResult == [returned |-> FALSE, val |-> <<>>]
Returned(v) == [returned |-> TRUE, val |-> v]

IdleFrame ==
    [pc |-> "idle", dados_amostra |-> <<>>, stdout_temp |-> OriginalStdout,
     wl_res_list |-> <<>>, i |-> 1, calls |-> <<>>, result |-> NoResult, exc |-> None]

InProgress(t) == thread[t].pc \in {"l341", "l342", "l344"}
Ended(t) == thread[t].pc \in {"returned", "raised"}

SeqsUpTo(S, n) == UNION {[1..k -> S] : k \in 0..n}

Quiet == called = "none" /\ \A t \in Threads : thread[t].pc = "idle"

PureVars == <<called, arg, ret, numpy_ragged, file, saved>>

(* A caller enters calcular_wl_res_list(dados_amostra).  Two callers are   *)
(* explored with inputs of at most MaxConcSpectra spectra each.            *)
Call(t) ==
    /\ called = "none"
    /\ thread[t].pc = "idle"
    /\ \E dados_amostra \in SeqsUpTo(SpectrumKinds, MaxSpectra) :
          /\ \A u \in Threads \ {t} :
                thread[u].pc # "idle" =>
                   /\ Len(dados_amostra) <= MaxConcSpectra
                   /\ Len(thread[u].dados_amostra) <= MaxConcSpectra
          /\ thread' = [thread EXCEPT ![t] =
                           [IdleFrame EXCEPT !.pc = "l341", !.dados_amostra = dados_amostra]]
    /\ overlapped' = (overlapped \/ \E u \in Threads \ {t} : InProgress(u))
    /\ UNCHANGED <<PureVars, sys_stdout>>

(* Line 341: stdout_temp = sys.stdout.                                     *)
SaveStdout(t) ==
    /\ thread[t].pc = "l341"
    /\ thread' = [thread EXCEPT ![t].stdout_temp = sys_stdout, ![t].pc = "l342"]
    /\ UNCHANGED <<PureVars, sys_stdout, overlapped>>

(* Lines 342-343: sys.stdout = open(os.devnull, 'w'); wl_res_list = [].    *)
Redirect(t) ==
    /\ thread[t].pc = "l342"
    /\ sys_stdout' = DevNull(t)
    /\ thread' = [thread EXCEPT ![t].wl_res_list = <<>>, ![t].i = 1, ![t].pc = "l344"]
    /\ UNCHANGED <<PureVars, overlapped>>

(* Lines 344-349: the next spectrum.  An exception ends the call there:    *)
(* nothing catches it, line 350 is not run and no list is returned.        *)
LoopStep(t) ==
    /\ thread[t].pc = "l344"
    /\ thread[t].i <= Len(thread[t].dados_amostra)
    /\ LET f == thread[t]
           r == loop_body(f.dados_amostra[f.i], f.wl_res_list)
       IN thread' = [thread EXCEPT ![t] =
              IF r.ok
              THEN [f EXCEPT !.wl_res_list = r.val, !.i = f.i + 1,
                             !.calls = Append(f.calls, f.i)]
              ELSE [f EXCEPT !.pc = "raised", !.exc = r.exc,
                             !.calls = Append(f.calls, f.i)]]
    /\ UNCHANGED <<PureVars, sys_stdout, overlapped>>

(* Lines 350-352: the loop is over; sys.stdout = stdout_temp and the list  *)
(* is returned.                                                            *)
RestoreAndReturn(t) ==
    /\ thread[t].pc = "l344"
    /\ thread[t].i > Len(thread[t].dados_amostra)
    /\ sys_stdout' = stdout_restored(thread[t], sys_stdout)
    /\ thread' = [thread EXCEPT ![t].pc = "returned", ![t].result = Returned(thread[t].wl_res_list)]
    /\ UNCHANGED <<PureVars, overlapped>>

---------------------------------------------------------------------------
(* The calls of the pure functions.                                        *)

SpectrumLens == {9, 11, 12}

(* A sample group whose spectra have the lengths lens, in experiment       *)
(* position g: spectrum i of it is told apart by its position <<g, i>>.    *)
Group(g, lens) == [i \in 1..Len(lens) |-> DataFrame(<<g, i>>, lens[i])]
Experiment(lensOfGroups) ==
    [g \in 1..Len(lensOfGroups) |-> Group(g, lensOfGroups[g])]

GroupLens == SeqsUpTo(SpectrumLens, MaxPerGroup)
ExperimentLens == SeqsUpTo(GroupLens, MaxGroups)
Samples == SeqsUpTo(1..MaxValue, MaxData)

ThreadVars == <<sys_stdout, thread, overlapped>>

NothingSaved == [batch |-> <<>>, form |-> "none"]

CallGetMean ==
    /\ Quiet
    /\ \E n \in 0..MaxLen :
          /\ arg' = Level(<<1, 1>>, n)
          /\ ret' = get_mean(Level(<<1, 1>>, n))
    /\ called' = "get_mean"
    /\ UNCHANGED <<numpy_ragged, file, saved, ThreadVars>>

CallGetFringe ==
    /\ Quiet
    /\ \E n \in 0..MaxLen :
          /\ arg' = Level(<<1, 1>>, n)
          /\ ret' = get_fringe(Level(<<1, 1>>, n))
    /\ called' = "get_fringe"
    /\ UNCHANGED <<numpy_ragged, file, saved, ThreadVars>>

CallVarreDados ==
    /\ Quiet
    /\ \E lens \in GroupLens :
          /\ arg' = Group(1, lens)
          /\ ret' = varre_dados(Group(1, lens), numpy_ragged)
    /\ called' = "varre_dados"
    /\ UNCHANGED <<numpy_ragged, file, saved, ThreadVars>>

CallCriaFranjas ==
    /\ Quiet
    /\ \E lens \in ExperimentLens :
          /\ arg' = Experiment(lens)
          /\ ret' = cria_franjas(Experiment(lens), numpy_ragged)
    /\ called' = "cria_franjas"
    /\ UNCHANGED <<numpy_ragged, file, saved, ThreadVars>>

CallFindPdf ==
    /\ Quiet
    /\ \E data \in Samples :
          /\ arg' = data
          /\ ret' = find_pdf(data)
    /\ called' = "find_pdf"
    /\ UNCHANGED <<numpy_ragged, file, saved, ThreadVars>>

(* save_list_to_json on a fringe batch: the array varre_dados returned, or *)
(* the same batch as a nested list.                                        *)
CallSaveListToJson ==
    /\ Quiet
    /\ \E lens \in GroupLens, form \in {"ndarray", "list"} :
          LET batch == varre_dados(Group(1, lens), numpy_ragged) IN
          /\ batch.ok
          /\ form = "list" => batch.val.dtype = "float64"
          /\ LET data == IF form = "list" THEN AsList(batch.val) ELSE batch.val
                 r == save_list_to_json(data)
             IN /\ arg' = data
                /\ saved' = [batch |-> batch.val, form |-> form]
                /\ ret' = r.out
                /\ file' = r.file
    /\ called' = "save_list_to_json"
    /\ UNCHANGED <<numpy_ragged, ThreadVars>>

CallLoadJsonFile ==
    /\ called \in {"none", "save_list_to_json"}
    /\ \A t \in Threads : thread[t].pc = "idle"
    /\ arg' = file
    /\ ret' = load_json_file(file)
    /\ called' = "load_json_file"
    /\ UNCHANGED <<numpy_ragged, file, saved, ThreadVars>>

CallDictToVector ==
    /\ called = "load_json_file"
    /\ ret.ok
    /\ arg' = ret.val
    /\ ret' = dict_to_vector(ret.val, numpy_ragged)
    /\ called' = "dict_to_vector"
    /\ UNCHANGED <<numpy_ragged, file, saved, ThreadVars>>

---------------------------------------------------------------------------

Init ==
    /\ called = "none"
    /\ arg = None
    /\ ret = None
    /\ numpy_ragged \in NumpyBuilds
    /\ sys_stdout = OriginalStdout
    /\ thread = [t \in Threads |-> IdleFrame]
    /\ overlapped = FALSE
    /\ file = Absent
    /\ saved = NothingSaved

Next ==
    \/ CallGetMean
    \/ CallGetFringe
    \/ CallVarreDados
    \/ CallCriaFranjas
    \/ CallFindPdf
    \/ CallSaveListToJson
    \/ CallLoadJsonFile
    \/ CallDictToVector
    \/ \E t \in Threads : Call(t)
    \/ \E t \in Threads : SaveStdout(t)
    \/ \E t \in Threads : Redirect(t)
    \/ \E t \in Threads : LoopStep(t)
    \/ \E t \in Threads : RestoreAndReturn(t)

Spec == Init /\ [][Next]_vars

---------------------------------------------------------------------------
(* Properties.                                                             *)

RECURSIVE Sum(_)
Sum(s) == IF s = <<>> THEN 0 ELSE Head(s) + Sum(Tail(s))

(* The number of flattened fringes that come before group g.               *)
Offset(manifest, g) == Sum(SubSeq(manifest, 1, g - 1))

(* The fringes of a group's spectra, one per spectrum, in the group's order*)
GroupFringes(group) == [i \in 1..Len(group) |-> get_fringe(group[i].Level).val]

(* C1: when cria_franjas returns, the manifest has one entry per group,    *)
(* equal to the group's number of spectra (0 for an empty group); the      *)
(* entries sum to the length of the flattened fringe sequence; and the     *)
(* slice of the flattened sequence at each group's cumulative offset is    *)
(* that group's per-spectrum fringes, groups and spectra in input order.   *)
C1_ManifestReconstructsGroups ==
    (called = "cria_franjas" /\ ret.ok) =>
        LET flat == ret.val[1]
            manifest == ret.val[2]
            rows == np_iter(flat)
        IN /\ Len(manifest) = Len(arg)
           /\ \A g \in 1..Len(arg) : manifest[g] = Len(arg[g])
           /\ Sum(manifest) = np_len(flat)
           /\ Len(rows) = np_len(flat)
           /\ \A g \in 1..Len(arg) :
                 SubSeq(rows, Offset(manifest, g) + 1, Offset(manifest, g) + manifest[g])
                    = GroupFringes(arg[g])

(* C1 witness: cria_franjas returned for an experiment of two groups, the  *)
(* first with two spectra and the second empty.                            *)
C1_Witness ==
    /\ called = "cria_franjas"
    /\ ret.ok
    /\ Len(arg) = 2
    /\ Len(arg[1]) = 2
    /\ Len(arg[2]) = 0
    /\ ret.val[2] = <<2, 0>>

(* C2: whenever a call of calcular_wl_res_list has ended, by a return or   *)
(* by an exception, and no other call has touched the stream, sys.stdout   *)
(* is again the stream that was installed when the call began.             *)
C2_StdoutRestoredOnEveryExit ==
    \A t \in Threads :
        (Ended(t) /\ \A u \in Threads \ {t} : thread[u].pc = "idle")
            => sys_stdout = thread[t].stdout_temp

(* C3: for every input length n >= 13, get_mean returns a sequence of      *)
(* length n, filtered with a window w that is odd, satisfies 3 <= w <= n   *)
(* and equals raw + (raw mod 2) + 1 for raw = floor(n / 1.1).              *)
C3_WindowFitsFromLength13 ==
    (called = "get_mean" /\ arg.len >= 13) =>
        /\ ret.ok
        /\ ret.val.len = arg.len
        /\ LET w == ret.val.window_length
               raw == (10 * arg.len) \div 11
           IN /\ w % 2 = 1
              /\ 3 <= w
              /\ w <= arg.len
              /\ w = raw + (raw % 2) + 1

(* C3 witness: get_mean returned on a length-33 input, where the float     *)
(* quotient 33 / 1.1 falls just below 30, with the window 31.              *)
C3_Witness ==
    /\ called = "get_mean"
    /\ arg.len = 33
    /\ ret.ok
    /\ ret.val.window_length = 31

(* C4: for every input length whose window has w <= 2 or w > n, get_mean   *)
(* fails with a DomainError raised by get_mean's own validation of the     *)
(* window, not with an error raised inside the filter routine.             *)
C4_ShortInputIsExplicitDomainError ==
    (called = "get_mean" /\ (Wind(arg.len) <= 2 \/ Wind(arg.len) > arg.len)) =>
        /\ ~ret.ok
        /\ ret.exc = "DomainError"
        /\ ret.raised_in = "get_mean"

(* C5: get_fringe fails when n < 11 or when get_mean fails on the input;   *)
(* for every other length it returns a fringe of length n, the window-11   *)
(* degree-2 smoothing of level minus get_mean(level).                      *)
C5_FringeFailsIffTooShort ==
    called = "get_fringe" =>
        LET n == arg.len
            mean == get_mean(arg)
        IN IF n < 11 \/ ~mean.ok
           THEN ~ret.ok
           ELSE /\ ret.ok
                /\ ret.val.len = n
                /\ ret.val = [op |-> "savgol_filter",
                              x |-> [op |-> "sub", x |-> arg, y |-> mean.val, len |-> n],
                              window_length |-> 11, polyorder |-> 2, len |-> n]

(* C5 witness: get_fringe returned a fringe on the shortest valid input,   *)
(* of length 11.                                                           *)
C5_Witness ==
    /\ called = "get_fringe"
    /\ arg.len = 11
    /\ ret.ok
    /\ ret.val.len = 11

(* C6: find_pdf called on an empty input fails instead of returning a      *)
(* result.                                                                 *)
C6_EmptySampleFails ==
    (called = "find_pdf" /\ Len(arg) = 0) => ~ret.ok

Count(data, v) == Cardinality({j \in 1..Len(data) : data[j] = v})

(* C7: for every non-empty input, find_pdf returns the distinct values of  *)
(* the input in strictly ascending order, each once, with one probability  *)
(* per value equal to (occurrences of the value) / (input length); the     *)
(* occurrence counts sum to the input length, so the probabilities sum to  *)
(* 1.                                                                      *)
C7_PdfIsCountsOverLength ==
    (called = "find_pdf" /\ Len(arg) > 0) =>
        /\ ret.ok
        /\ LET values == ret.val[1]
               pdf == ret.val[2]
               n == Len(arg)
           IN /\ Len(pdf) = Len(values)
              /\ \A i, j \in 1..Len(values) : i < j => values[i] < values[j]
              /\ {values[i] : i \in 1..Len(values)} = {arg[j] : j \in 1..n}
              /\ \A i \in 1..Len(values) :
                    /\ pdf[i].den # 0
                    /\ pdf[i].num * n = Count(arg, values[i]) * pdf[i].den
              /\ \A i \in 1..Len(values) : pdf[i].den = pdf[1].den
              /\ Sum([i \in 1..Len(pdf) |-> pdf[i].num]) = pdf[1].den

(* C7 witness: find_pdf([1,2,2,3,3,3]) returned the values [1,2,3] with    *)
(* the probabilities 1/6, 2/6, 3/6.                                        *)
C7_Witness ==
    /\ called = "find_pdf"
    /\ arg = <<1, 2, 2, 3, 3, 3>>
    /\ ret.ok
    /\ ret.val = <<<<1, 2, 3>>, <<Frac(1, 6), Frac(2, 6), Frac(3, 6)>>>>

(* Whether the valley finder's answer for a spectrum makes its item fail,  *)
(* and the resonant wavelength it holds otherwise.                         *)
ItemFails(df) ==
    LET r == get_approximate_valley(df) IN
    \/ ~r.ok
    \/ BestIndexKey \notin DOMAIN r.val
    \/ ResonantWlKey(r.val[BestIndexKey]) \notin DOMAIN r.val
ItemWl(df) ==
    LET info == get_approximate_valley(df).val IN info[ResonantWlKey(info[BestIndexKey])]

(* C8: calcular_wl_res_list invokes the valley finder on the spectra in    *)
(* input order.  When it returns, no item failed and the list holds one    *)
(* resonant wavelength per spectrum, info['resonant_wl_<best_index>'] of   *)
(* that spectrum, in input order.  When item k is the first to fail the    *)
(* call ends with the exception at k: the valley finder was invoked for    *)
(* items 1..k and no other, and no list is returned.                       *)
C8_InOrderAbortOnFirstFailure ==
    \A t \in Threads :
        LET f == thread[t]
            dados == f.dados_amostra
            n == Len(dados)
        IN /\ f.calls = [j \in 1..Len(f.calls) |-> j]
           /\ \A j \in 1..Len(f.calls) : \A h \in 1..(j - 1) : ~ItemFails(dados[h])
           /\ f.pc = "returned" =>
                 /\ f.calls = [j \in 1..n |-> j]
                 /\ \A j \in 1..n : ~ItemFails(dados[j])
                 /\ f.result.returned
                 /\ f.result.val = [j \in 1..n |-> ItemWl(dados[j])]
           /\ f.pc = "raised" =>
                 /\ Len(f.calls) >= 1
                 /\ ItemFails(dados[Len(f.calls)])
                 /\ ~f.result.returned
           /\ (f.pc = "l344" /\ f.i <= n) => f.calls = [j \in 1..(f.i - 1) |-> j]

(* C8 witness: a call on three spectra ended with the exception of its     *)
(* second item, after the first gave its wavelength; the third was never   *)
(* handed to the valley finder.                                            *)
C8_Witness ==
    \E t \in Threads :
        /\ thread[t].pc = "raised"
        /\ Len(thread[t].dados_amostra) = 3
        /\ thread[t].dados_amostra[1] = "valley1"
        /\ thread[t].wl_res_list = <<1540>>
        /\ thread[t].calls = <<1, 2>>

BothReturned == \A t \in Threads : thread[t].pc = "returned"

(* C9: when two calls of calcular_wl_res_list are serialized (neither      *)
(* begins while the other is in progress) and both return normally,        *)
(* sys.stdout is the original stream again; a null sink left behind by     *)
(* two normally returning calls takes an interleaving of the two.          *)
C9_SerializedCallsRestoreStdout ==
    BothReturned =>
        /\ ~overlapped => sys_stdout = OriginalStdout
        /\ sys_stdout # OriginalStdout =>
              /\ overlapped
              /\ sys_stdout.stream = "devnull"
              /\ \E t \in Threads : thread[t].stdout_temp = sys_stdout

(* C9 witness: two interleaved calls both returned normally and sys.stdout *)
(* is left bound to a null sink.                                           *)
C9_Witness ==
    /\ BothReturned
    /\ overlapped
    /\ sys_stdout.stream = "devnull"

(* The floats of a batch of fringe vectors, in row-major order.            *)
BatchFloats(a) == PyFlat(AsList(a))

(* C10: saving a fringe batch, as varre_dados produced it, with            *)
(* save_list_to_json succeeds; load_json_file then reads the file back;    *)
(* and dict_to_vector of what was read is the batch's numeric sequence,    *)
(* element for element in the same order.                                  *)
C10_SavedBatchReloadsIdentical ==
    saved.form = "ndarray" =>
        /\ called = "save_list_to_json" => ret.ok
        /\ called = "load_json_file" => ret.ok
        /\ called = "dict_to_vector" =>
              /\ ret.ok
              /\ ret.val.flat = BatchFloats(saved.batch)

=============================================================================
